---- MODULE Spec2Model ----
(***************************************************************************)
(* Reaction-diffusion cellular automaton (ca_turing_pattern, src/lib.rs).  *)
(*                                                                         *)
(* The f32 concentrations are modelled as fixed-point numbers with Scale   *)
(* units per 1.0, every product and quotient rounded to the nearest unit,  *)
(* a finite range [-FMax, FMax] beyond which a result overflows to an      *)
(* infinity, and the IEEE special values +inf, -inf and NaN.               *)
(* Grids are functions over 0-based indices, as Vec<Vec<_>> is indexed.    *)
(***************************************************************************)
EXTENDS Integers, Sequences, FiniteSets

\* ------------------------------------------------------------------ bounds
Scale == 1000
FMax == 30000
MaxDim == 3
MaxActive == 1
MaxGen == 1

\* ------------------------------------------------------------- f32 values
PosInf == FMax + 1
NegInf == 0 - PosInf
NaN == FMax + 2

IsNaN(x) == x = NaN
IsInf(x) == x = PosInf \/ x = NegInf
IsFinite(x) == (0 - FMax) <= x /\ x <= FMax

\* 1.0, and the literal num/den rounded to the nearest unit
One == Scale
Lit(num, den) == (2 * num * Scale + den) \div (2 * den)

\* a finite result, overflowing to an infinity outside the finite range
Overflow(v) == IF v > FMax THEN PosInf ELSE IF v < 0 - FMax THEN NegInf ELSE v

\* n / d rounded to the nearest integer, halves away from zero (d > 0)
RoundDiv(n, d) ==
  IF n >= 0 THEN (2 * n + d) \div (2 * d) ELSE 0 - ((2 * (0 - n) + d) \div (2 * d))

Sign(x) == IF x > 0 THEN 1 ELSE IF x < 0 THEN 0 - 1 ELSE 0

FNeg(x) == IF IsNaN(x) THEN NaN ELSE 0 - x

FAdd(x, y) ==
  IF IsFinite(x) /\ IsFinite(y) THEN Overflow(x + y)
  ELSE IF IsNaN(x) \/ IsNaN(y) THEN NaN
  ELSE IF IsInf(x) THEN (IF IsInf(y) /\ y # x THEN NaN ELSE x)
  ELSE y

FSub(x, y) ==
  IF IsFinite(x) /\ IsFinite(y) THEN Overflow(x - y) ELSE FAdd(x, FNeg(y))

FMul(x, y) ==
  IF IsFinite(x) /\ IsFinite(y) THEN Overflow(RoundDiv(x * y, Scale))
  ELSE IF IsNaN(x) \/ IsNaN(y) THEN NaN
  ELSE IF x = 0 \/ y = 0 THEN NaN
  ELSE IF Sign(x) * Sign(y) > 0 THEN PosInf ELSE NegInf

FDiv(x, y) ==
  IF IsNaN(x) \/ IsNaN(y) THEN NaN
  ELSE IF IsInf(x) THEN (IF IsInf(y) THEN NaN
                         ELSE IF Sign(x) * (IF y < 0 THEN 0 - 1 ELSE 1) > 0
                           THEN PosInf ELSE NegInf)
  ELSE IF IsInf(y) THEN 0
  ELSE IF y = 0 THEN (IF x = 0 THEN NaN ELSE IF x > 0 THEN PosInf ELSE NegInf)
  ELSE IF y > 0 THEN Overflow(RoundDiv(x * Scale, y))
  ELSE Overflow(RoundDiv((0 - x) * Scale, 0 - y))

\* x <= y on f32: false when either side is NaN
FLe(x, y) == ~IsNaN(x) /\ ~IsNaN(y) /\ x <= y

\* body(v) with v the value of e, evaluated once (a let of the source)
Bind(e, body(_)) == CHOOSE res \in { body(v) : v \in {e} } : TRUE

\* ------------------------------------------------------------ cell, color
CellState(a, b) == [a |-> a, b |-> b]

CellState_default == CellState(0, 0)

CellState_color(self) ==
  IF FLe(FAdd(self.a, self.b), 0) THEN 0
  ELSE FDiv(self.b, FAdd(self.a, self.b))

color_cell_swapped(cell) ==
  IF FLe(FAdd(cell.a, cell.b), 0) THEN 0
  ELSE FDiv(cell.a, FAdd(cell.a, cell.b))

color_cell(cell) ==
  IF FLe(FAdd(cell.a, cell.b), 0) THEN 0
  ELSE FDiv(cell.b, FAdd(cell.a, cell.b))

\* ------------------------------------------------------------ positions
Position(x, y) == [x |-> x, y |-> y]

\* Universe and ColoredMap: n_y rows of n_x entries, indexed [y][x] from 0
ZeroUniverse(n_x, n_y) ==
  [y \in 0..(n_y - 1) |-> [x \in 0..(n_x - 1) |-> CellState(0, 0)]]

ZeroColoredMap(n_x, n_y) == [y \in 0..(n_y - 1) |-> [x \in 0..(n_x - 1) |-> 0]]

\* whether grid[y][x] exists: indexing outside it is a bounds error
InBounds(grid, y, x) == y \in DOMAIN grid /\ x \in DOMAIN grid[y]

\* ------------------------------------------------------------- parameters
Parameters(d_a, d_b, f, k, r, n_x, n_y) ==
  [d_a |-> d_a, d_b |-> d_b, f |-> f, k |-> k, r |-> r, n_x |-> n_x, n_y |-> n_y]

\* the rates of Parameters::default (and of main), a run without feed and with
\* the fastest diffusion of A, and a run without diffusion
RateChoices ==
  { <<Lit(6, 10), Lit(3, 10), Lit(2, 10), Lit(1, 10), Lit(5, 10)>>,
    <<One, Lit(5, 10), 0, Lit(1, 10), One>>,
    <<0, 0, Lit(5, 10), Lit(5, 10), One>> }

ParameterChoices ==
  { Parameters(q[1], q[2], q[3], q[4], q[5], n_x, n_y) :
      q \in RateChoices, n_x \in 1..MaxDim, n_y \in 1..MaxDim }

\* --------------------------------------------------------------- diffusion
get_adjacent_cells_diffusion_inflow_first(d_a, d_b, angular_rate, diffused_cell, neighbour_position, universe) ==
  LET nb == universe[neighbour_position.y][neighbour_position.x]
      a1 == FAdd(diffused_cell.a, FMul(FMul(angular_rate, d_a), nb.a))
      b1 == FAdd(diffused_cell.b, FMul(FMul(angular_rate, d_b), nb.b))
  IN CellState(FSub(a1, FMul(FMul(angular_rate, d_a), a1)),
               FSub(b1, FMul(FMul(angular_rate, d_b), b1)))

get_adjacent_cells_diffusion(d_a, d_b, angular_rate, diffused_cell, neighbour_position, universe) ==
  LET nb == universe[neighbour_position.y][neighbour_position.x]
      a1 == FSub(diffused_cell.a, FMul(FMul(angular_rate, d_a), diffused_cell.a))
      b1 == FSub(diffused_cell.b, FMul(FMul(angular_rate, d_b), diffused_cell.b))
  IN CellState(FAdd(a1, FMul(FMul(angular_rate, d_a), nb.a)),
               FAdd(b1, FMul(FMul(angular_rate, d_b), nb.b)))

\* the eight guarded call sites of get_diffusion_in_cell, in source order:
\* the guard, the angular rate and the neighbour position of each
Stencil_wrapping(position, dimensions) ==
  LET up == (position.y + dimensions.y - 1) % dimensions.y
      dn == (position.y + 1) % dimensions.y
      lf == (position.x + dimensions.x - 1) % dimensions.x
      rt == (position.x + 1) % dimensions.x
  IN << [on |-> TRUE, w |-> Lit(5, 100), y |-> up, x |-> lf],
        [on |-> TRUE, w |-> Lit(2, 10), y |-> up, x |-> position.x],
        [on |-> TRUE, w |-> Lit(5, 100), y |-> up, x |-> rt],
        [on |-> TRUE, w |-> Lit(2, 10), y |-> position.y, x |-> rt],
        [on |-> TRUE, w |-> Lit(5, 100), y |-> dn, x |-> rt],
        [on |-> TRUE, w |-> Lit(2, 10), y |-> dn, x |-> position.x],
        [on |-> TRUE, w |-> Lit(5, 100), y |-> dn, x |-> lf],
        [on |-> TRUE, w |-> Lit(2, 10), y |-> position.y, x |-> lf] >>

Stencil_off_by_one(position, dimensions) ==
  << [on |-> position.y - 1 >= 0 /\ position.x - 1 >= 0,
      w |-> Lit(5, 100), y |-> position.y - 1, x |-> position.x - 1],
     [on |-> position.y - 1 >= 0,
      w |-> Lit(2, 10), y |-> position.y - 1, x |-> position.x],
     [on |-> position.y - 1 >= 0 /\ position.x + 1 <= dimensions.x,
      w |-> Lit(5, 100), y |-> position.y - 1, x |-> position.x + 1],
     [on |-> position.x + 1 <= dimensions.x,
      w |-> Lit(2, 10), y |-> position.y, x |-> position.x + 1],
     [on |-> position.y + 1 < dimensions.y /\ position.x + 1 <= dimensions.x,
      w |-> Lit(5, 100), y |-> position.y + 1, x |-> position.x + 1],
     [on |-> position.y + 1 < dimensions.y,
      w |-> Lit(2, 10), y |-> position.y + 1, x |-> position.x],
     [on |-> position.y + 1 < dimensions.y /\ position.x - 1 >= 0,
      w |-> Lit(5, 100), y |-> position.y + 1, x |-> position.x - 1],
     [on |-> position.x - 1 >= 0,
      w |-> Lit(2, 10), y |-> position.y, x |-> position.x - 1] >>

Stencil(position, dimensions) ==
  << [on |-> position.y - 1 >= 0 /\ position.x - 1 >= 0,
      w |-> Lit(5, 100), y |-> position.y - 1, x |-> position.x - 1],
     [on |-> position.y - 1 >= 0,
      w |-> Lit(2, 10), y |-> position.y - 1, x |-> position.x],
     [on |-> position.y - 1 >= 0 /\ position.x + 1 < dimensions.x,
      w |-> Lit(5, 100), y |-> position.y - 1, x |-> position.x + 1],
     [on |-> position.x + 1 < dimensions.x,
      w |-> Lit(2, 10), y |-> position.y, x |-> position.x + 1],
     [on |-> position.y + 1 < dimensions.y /\ position.x + 1 < dimensions.x,
      w |-> Lit(5, 100), y |-> position.y + 1, x |-> position.x + 1],
     [on |-> position.y + 1 < dimensions.y,
      w |-> Lit(2, 10), y |-> position.y + 1, x |-> position.x],
     [on |-> position.y + 1 < dimensions.y /\ position.x - 1 >= 0,
      w |-> Lit(5, 100), y |-> position.y + 1, x |-> position.x - 1],
     [on |-> position.x - 1 >= 0,
      w |-> Lit(2, 10), y |-> position.y, x |-> position.x - 1] >>

IsOn(s) == s.on

\* the call sites whose guard holds, in source order
Taken(position, dimensions) == SelectSeq(Stencil(position, dimensions), IsOn)

\* the diffused cell after the first k taken call sites
RECURSIVE DiffuseSteps(_, _, _, _, _, _)
DiffuseSteps(k, d_a, d_b, cell, taken, universe) ==
  IF k = 0 THEN cell
  ELSE Bind(DiffuseSteps(k - 1, d_a, d_b, cell, taken, universe),
            LAMBDA diffused_cell :
              get_adjacent_cells_diffusion(d_a, d_b, taken[k].w, diffused_cell,
                                           Position(taken[k].x, taken[k].y), universe))

get_diffusion_in_cell(d_a, d_b, cell, position, dimensions, universe) ==
  Bind(Taken(position, dimensions),
       LAMBDA taken : DiffuseSteps(Len(taken), d_a, d_b, cell, taken, universe))

\* -------------------------------------------------------------- transition
\* feed, decay and reproduction applied to the diffused cell d; src is the
\* cell the rates are taken from (transition passes the input cell)
React_feed_proportional(f, k, r, d, src) ==
  Bind(FMul(FMul(r, src.a), FMul(src.b, src.b)),
       LAMBDA reproduction_reaction :
         CellState(FSub(FAdd(d.a, FMul(f, src.a)), reproduction_reaction),
                   FAdd(FSub(d.b, FMul(k, src.b)), reproduction_reaction)))

React(f, k, r, d, src) ==
  Bind(FMul(FMul(r, src.a), FMul(src.b, src.b)),
       LAMBDA reproduction_reaction :
         CellState(FSub(FAdd(d.a, FMul(f, FSub(One, src.a))), reproduction_reaction),
                   FAdd(FSub(d.b, FMul(k, src.b)), reproduction_reaction)))

\* the evolved cell, the color written to colored_map[position.y][position.x],
\* and (for the record) the diffused intermediate
transition_reacts_on_diffused(parameters, cell, position, dimensions, universe) ==
  Bind(get_diffusion_in_cell(parameters.d_a, parameters.d_b, cell, position,
                             dimensions, universe),
       LAMBDA d :
         Bind(React(parameters.f, parameters.k, parameters.r, d, d),
              LAMBDA evolved_cell :
                [cell |-> evolved_cell, color |-> color_cell(evolved_cell),
                 diffused |-> d]))

transition_colors_before_reaction(parameters, cell, position, dimensions, universe) ==
  Bind(get_diffusion_in_cell(parameters.d_a, parameters.d_b, cell, position,
                             dimensions, universe),
       LAMBDA d :
         Bind(React(parameters.f, parameters.k, parameters.r, d, cell),
              LAMBDA evolved_cell :
                [cell |-> evolved_cell, color |-> color_cell(d), diffused |-> d]))

transition(parameters, cell, position, dimensions, universe) ==
  Bind(get_diffusion_in_cell(parameters.d_a, parameters.d_b, cell, position,
                             dimensions, universe),
       LAMBDA d :
         Bind(React(parameters.f, parameters.k, parameters.r, d, cell),
              LAMBDA evolved_cell :
                [cell |-> evolved_cell, color |-> color_cell(evolved_cell),
                 diffused |-> d]))

\* every index one sweep iteration uses lies in its container: the swept cell
\* and the taken neighbours in universe, the write in colored_map
IndicesInBounds(position, dimensions, universe, colored_map) ==
  /\ InBounds(universe, position.y, position.x)
  /\ \E taken \in {Taken(position, dimensions)} :
       \A k \in 1..Len(taken) : InBounds(universe, taken[k].y, taken[k].x)
  /\ InBounds(colored_map, position.y, position.x)

\* one whole step as a function of its input: the grid evolution_universe
\* returns and the color map it leaves
evolution_universe(parameters, dimensions, universe, colored_map) ==
  Bind([y \in 0..(dimensions.y - 1) |->
          [x \in 0..(dimensions.x - 1) |->
             transition(parameters, universe[y][x], Position(x, y), dimensions,
                        universe)]],
       LAMBDA t :
         [universe |->
            [y \in 0..(dimensions.y - 1) |->
               [x \in 0..(dimensions.x - 1) |-> t[y][x].cell]],
          colored_map |->
            [y \in DOMAIN colored_map |->
               [x \in DOMAIN colored_map[y] |->
                  IF y < dimensions.y /\ x < dimensions.x
                    THEN t[y][x].color ELSE colored_map[y][x]]]])

\* a bounds error somewhere in the sweep: evolution_universe panics
StepPanics(dimensions, universe, colored_map) ==
  \E y \in 0..(dimensions.y - 1), x \in 0..(dimensions.x - 1) :
    ~IndicesInBounds(Position(x, y), dimensions, universe, colored_map)

\* ------------------------------------------------------------------ state
VARIABLES
  pc,                \* where the program is
  parameters,        \* the Parameters resource
  dimensions,        \* the Position passed as the grid's dimensions
  universe,          \* the current grid
  colored_map,       \* the color map shared by all generations
  evolved_universe,  \* evolution_universe's output grid
  r, c,              \* evolution_universe's loop indices
  i, n,              \* total_simulation's loop counter and its argument n
  seeding,           \* which initializer built the grid
  universe0,         \* the grid and the color map the initializer made
  colored_map0,
  n1, n2,            \* the first and the second call's argument n
  gens,              \* steps completed since the initializer
  frozen,            \* the grid the running (or last) step was given
  map_before,        \* the color map the running (or last) step was given
  writes,            \* per position: writes to evolved_universe in this step
  map_writes,        \* per position: writes to colored_map in this step
  last,              \* the last transition: its cell, diffused value, result
  in_cell, applied, out_color, out_method   \* the color mapper on its own

mvars == <<pc, parameters, dimensions, universe, colored_map, evolved_universe,
           r, c, i, n, seeding, universe0, colored_map0, n1, n2, gens, frozen,
           map_before, writes, map_writes, last>>

cvars == <<in_cell, applied, out_color, out_method>>

vars == <<mvars, cvars>>

\* ------------------------------------------------------------ initializers
\* all positions of an n_x by n_y grid, in the order the nested loops make them
PositionList(n_x, n_y) ==
  [j \in 1..(n_x * n_y) |-> Position((j - 1) \div n_y, (j - 1) % n_y)]

Swap(list, j, k) == [list EXCEPT ![j] = list[k], ![k] = list[j]]

\* the first three entries of the shuffled position list: entry k is drawn
\* from the entries not yet placed (a Fisher-Yates shuffle's first 3 rounds)
Shuffle3_with_replacement(list, j1, j2, j3) == <<list[j1], list[j2], list[j3]>>

Shuffle3(list, j1, j2, j3) ==
  Bind(Swap(Swap(Swap(list, 1, j1), 2, j2), 3, j3),
       LAMBDA s : <<s[1], s[2], s[3]>>)

Activate(grid, position) ==
  [grid EXCEPT ![position.y][position.x] = CellState(One, One)]

Recolor(map, grid, position) ==
  [map EXCEPT ![position.y][position.x] = color_cell(grid[position.y][position.x])]

\* the subsets of S with at most k elements
RECURSIVE SubsetsUpTo(_, _)
SubsetsUpTo(S, k) ==
  IF k = 0 THEN {{}}
  ELSE Bind(SubsetsUpTo(S, k - 1),
            LAMBDA smaller : smaller \cup { A \cup {e} : A \in smaller, e \in S })

\* the sets of at most MaxActive positions <<y, x>> of the grid
ActiveSets(n_x, n_y) == SubsetsUpTo((0..(n_y - 1)) \X (0..(n_x - 1)), MaxActive)

IdleLast ==
  [position |-> Position(0, 0), cell |-> CellState(0, 0),
   diffused |-> CellState(0, 0), evolved |-> CellState(0, 0), taken |-> <<>>]

ColorIdle ==
  /\ in_cell = CellState(0, 0)
  /\ applied = TRUE
  /\ out_color = 0
  /\ out_method = 0

\* main: the parameters and the dimensions are built, the grids are zeroed.
\* main passes dimensions equal to the grid's; total_simulation takes them as
\* an argument of its own, so a caller's x/y mix-up is an input as well.
Init ==
  /\ pc = "main"
  /\ parameters \in ParameterChoices
  /\ dimensions \in { Position(parameters.n_x, parameters.n_y),
                      Position(parameters.n_y, parameters.n_x) }
  /\ universe = ZeroUniverse(parameters.n_x, parameters.n_y)
  /\ colored_map = ZeroColoredMap(parameters.n_x, parameters.n_y)
  /\ evolved_universe = ZeroUniverse(parameters.n_x, parameters.n_y)
  /\ r = 0 /\ c = 0 /\ i = 0 /\ n = 0
  /\ seeding = "none"
  /\ universe0 = universe
  /\ colored_map0 = colored_map
  /\ n1 = 0 /\ n2 = 0 /\ gens = 0
  /\ frozen = universe
  /\ map_before = colored_map
  /\ writes = ZeroColoredMap(parameters.n_x, parameters.n_y)
  /\ map_writes = ZeroColoredMap(parameters.n_x, parameters.n_y)
  /\ last = IdleLast
  /\ ColorIdle

\* lib.rs initialize_universe: every cell is (1,1) with probability 0.005 and
\* (0,0) otherwise; its color is States::get_sprite_color
initialize_universe ==
  /\ pc = "main"
  /\ \E A \in ActiveSets(parameters.n_x, parameters.n_y) :
       /\ universe' =
            [y \in 0..(parameters.n_y - 1) |->
               [x \in 0..(parameters.n_x - 1) |->
                  IF <<y, x>> \in A THEN CellState(One, One) ELSE CellState(0, 0)]]
       /\ colored_map' =
            [y \in 0..(parameters.n_y - 1) |->
               [x \in 0..(parameters.n_x - 1) |->
                  CellState_color(universe'[y][x])]]
  /\ seeding' = "probability"
  /\ pc' = "ready"
  /\ universe0' = universe'
  /\ colored_map0' = colored_map'
  /\ frozen' = universe'
  /\ map_before' = colored_map'
  /\ UNCHANGED <<parameters, dimensions, evolved_universe, r, c, i, n, n1, n2,
                 gens, writes, map_writes, last>>
  /\ UNCHANGED cvars

\* the initializer main calls: 3 positions off the shuffled position list
initialize_universe_fixed3 ==
  /\ pc = "main"
  /\ parameters.n_x * parameters.n_y >= 3
  /\ \E list \in {PositionList(parameters.n_x, parameters.n_y)} :
       \E j1 \in 1..Len(list), j2 \in 2..Len(list), j3 \in 3..Len(list) :
         \E seeds \in {Shuffle3(list, j1, j2, j3)} :
           \E u1 \in {Activate(universe, seeds[1])} :
             \E m1 \in {Recolor(colored_map, u1, seeds[1])} :
               \E u2 \in {Activate(u1, seeds[2])} :
                 \E m2 \in {Recolor(m1, u2, seeds[2])} :
                   \E u3 \in {Activate(u2, seeds[3])} :
                     /\ universe' = u3
                     /\ colored_map' = Recolor(m2, u3, seeds[3])
  /\ seeding' = "fixed3"
  /\ pc' = "ready"
  /\ universe0' = universe'
  /\ colored_map0' = colored_map'
  /\ frozen' = universe'
  /\ map_before' = colored_map'
  /\ UNCHANGED <<parameters, dimensions, evolved_universe, r, c, i, n, n1, n2,
                 gens, writes, map_writes, last>>
  /\ UNCHANGED cvars

\* ------------------------------------------------ one step, cell by cell
\* evolution_universe is entered and allocates its output grid
evolution_universe_enter ==
  /\ pc = "ready"
  /\ evolved_universe' = ZeroUniverse(dimensions.x, dimensions.y)
  /\ r' = 0 /\ c' = 0
  /\ frozen' = universe
  /\ map_before' = colored_map
  /\ writes' = ZeroColoredMap(dimensions.x, dimensions.y)
  /\ map_writes' = [y \in DOMAIN colored_map |-> [x \in DOMAIN colored_map[y] |-> 0]]
  /\ pc' = "sweep"
  /\ UNCHANGED <<parameters, dimensions, universe, colored_map, i, n, seeding,
                 universe0, colored_map0, n1, n2, gens, last>>
  /\ UNCHANGED cvars

\* the grid the sweep reads
SweepSource_in_place(input, output, done) ==
  [y \in DOMAIN input |->
     [x \in DOMAIN input[y] |->
        IF InBounds(done, y, x) /\ done[y][x] > 0 THEN output[y][x] ELSE input[y][x]]]

SweepSource(input, output, done) == input

\* the loop indices after the iteration at (row, col)
SweepAdvance(row, col, dims) ==
  IF col + 1 < dims.x THEN [r |-> row, c |-> col + 1] ELSE [r |-> row + 1, c |-> 0]

\* one iteration of the nested loops: evolved_universe[r][c] = transition(...)
transition_cell ==
  /\ pc = "sweep"
  /\ r < dimensions.y
  /\ \E source \in {SweepSource(universe, evolved_universe, writes)},
        position \in {Position(c, r)} :
       /\ IndicesInBounds(position, dimensions, source, colored_map)
       /\ InBounds(evolved_universe, r, c)
       /\ \E t \in {transition(parameters, source[r][c], position, dimensions, source)} :
            /\ evolved_universe' = [evolved_universe EXCEPT ![r][c] = t.cell]
            /\ colored_map' = [colored_map EXCEPT ![r][c] = t.color]
            /\ last' = [position |-> position,
                        cell |-> source[r][c],
                        diffused |-> t.diffused,
                        evolved |-> t.cell,
                        taken |-> Taken(position, dimensions)]
  /\ writes' = [writes EXCEPT ![r][c] = @ + 1]
  /\ map_writes' = [map_writes EXCEPT ![r][c] = @ + 1]
  /\ r' = SweepAdvance(r, c, dimensions).r
  /\ c' = SweepAdvance(r, c, dimensions).c
  /\ UNCHANGED <<pc, parameters, dimensions, universe, i, n, seeding, universe0,
                 colored_map0, n1, n2, gens, frozen, map_before>>
  /\ UNCHANGED cvars

\* an index of the iteration lies outside its container: the program panics
transition_panic ==
  /\ pc = "sweep"
  /\ r < dimensions.y
  /\ \E source \in {SweepSource(universe, evolved_universe, writes)},
        position \in {Position(c, r)} :
       ~(IndicesInBounds(position, dimensions, source, colored_map)
         /\ InBounds(evolved_universe, r, c))
  /\ pc' = "panic"
  /\ UNCHANGED <<parameters, dimensions, universe, colored_map, evolved_universe,
                 r, c, i, n, seeding, universe0, colored_map0, n1, n2, gens,
                 frozen, map_before, writes, map_writes, last>>
  /\ UNCHANGED cvars

\* evolution_universe returns its output grid, the caller's new universe
evolution_universe_return ==
  /\ pc = "sweep"
  /\ r >= dimensions.y
  /\ universe' = evolved_universe
  /\ gens' = gens + 1
  /\ pc' = "stepped"
  /\ UNCHANGED <<parameters, dimensions, colored_map, evolved_universe, r, c, i,
                 n, seeding, universe0, colored_map0, n1, n2, frozen, map_before,
                 writes, map_writes, last>>
  /\ UNCHANGED cvars

NextSweep ==
  \/ initialize_universe
  \/ initialize_universe_fixed3
  \/ evolution_universe_enter
  \/ transition_cell
  \/ transition_panic
  \/ evolution_universe_return

SpecSweep == Init /\ [][NextSweep]_vars

\* ---------------------------------------------------------------- the driver
\* total_simulation(n, ...) is entered with n >= 0; a second call continues
\* from the grid and the color map the first one left
total_simulation_call ==
  /\ pc \in {"ready", "between"}
  /\ \E k \in 0..MaxGen :
       /\ n' = k
       /\ IF pc = "ready" THEN n1' = k /\ n2' = n2 ELSE n2' = k /\ n1' = n1
  /\ i' = 0
  /\ pc' = IF pc = "ready" THEN "loop1" ELSE "loop2"
  /\ UNCHANGED <<parameters, dimensions, universe, colored_map, evolved_universe,
                 r, c, seeding, universe0, colored_map0, gens, frozen, map_before,
                 writes, map_writes, last>>
  /\ UNCHANGED cvars

InLoop == pc \in {"loop1", "loop2"}

\* whether the for loop of total_simulation is over
LoopDone_inclusive(count, limit) == count > limit

LoopDone(count, limit) == count >= limit

\* one pass of the loop body: universe = evolution_universe(...)
total_simulation_step ==
  /\ InLoop
  /\ ~LoopDone(i, n)
  /\ ~StepPanics(dimensions, universe, colored_map)
  /\ \E ev \in {evolution_universe(parameters, dimensions, universe, colored_map)} :
       /\ universe' = ev.universe
       /\ colored_map' = ev.colored_map
  /\ frozen' = universe
  /\ map_before' = colored_map
  /\ i' = i + 1
  /\ gens' = gens + 1
  /\ UNCHANGED <<pc, parameters, dimensions, evolved_universe, r, c, n, seeding,
                 universe0, colored_map0, n1, n2, writes, map_writes, last>>
  /\ UNCHANGED cvars

total_simulation_panic ==
  /\ InLoop
  /\ ~LoopDone(i, n)
  /\ StepPanics(dimensions, universe, colored_map)
  /\ pc' = "panic"
  /\ UNCHANGED <<parameters, dimensions, universe, colored_map, evolved_universe,
                 r, c, i, n, seeding, universe0, colored_map0, n1, n2, gens,
                 frozen, map_before, writes, map_writes, last>>
  /\ UNCHANGED cvars

total_simulation_return ==
  /\ InLoop
  /\ LoopDone(i, n)
  /\ pc' = IF pc = "loop1" THEN "between" ELSE "done"
  /\ UNCHANGED <<parameters, dimensions, universe, colored_map, evolved_universe,
                 r, c, i, n, seeding, universe0, colored_map0, n1, n2, gens,
                 frozen, map_before, writes, map_writes, last>>
  /\ UNCHANGED cvars

Next ==
  \/ initialize_universe
  \/ total_simulation_call
  \/ total_simulation_step
  \/ total_simulation_panic
  \/ total_simulation_return

Spec == Init /\ [][Next]_vars

\* ------------------------------------------- the color mapper on its own
\* f32 inputs: negative, zero, the smallest unit, fractions, 1.0, above 1.0,
\* the largest finite value, the infinities and NaN
F32Samples ==
  {NegInf, 0 - FMax, 0 - One, 0 - 1, 0, 1, Lit(1, 4), Lit(1, 2), One,
   One + 1, 2 * One, FMax, PosInf, NaN}

MainIdle ==
  /\ pc = "color"
  /\ parameters = Parameters(0, 0, 0, 0, 0, 1, 1)
  /\ dimensions = Position(1, 1)
  /\ universe = ZeroUniverse(1, 1)
  /\ colored_map = ZeroColoredMap(1, 1)
  /\ evolved_universe = ZeroUniverse(1, 1)
  /\ r = 0 /\ c = 0 /\ i = 0 /\ n = 0
  /\ seeding = "none"
  /\ universe0 = universe
  /\ colored_map0 = colored_map
  /\ n1 = 0 /\ n2 = 0 /\ gens = 0
  /\ frozen = universe
  /\ map_before = colored_map
  /\ writes = ZeroColoredMap(1, 1)
  /\ map_writes = ZeroColoredMap(1, 1)
  /\ last = IdleLast

ColorInit ==
  /\ in_cell \in [a : F32Samples, b : F32Samples]
  /\ applied = FALSE
  /\ out_color = 0
  /\ out_method = 0
  /\ MainIdle

ColorCell ==
  /\ ~applied
  /\ applied' = TRUE
  /\ out_color' = color_cell(in_cell)
  /\ out_method' = CellState_color(in_cell)
  /\ UNCHANGED in_cell
  /\ UNCHANGED mvars

ColorNext == ColorCell

SpecColor == ColorInit /\ [][ColorNext]_vars

\* -------------------------------------------------------------------
\* Properties
\* -------------------------------------------------------------------
Rows(d) == 0..(d.y - 1)
Cols(d) == 0..(d.x - 1)

AllZero(grid) ==
  \A y \in DOMAIN grid : \A x \in DOMAIN grid[y] : grid[y][x] = CellState(0, 0)

\* the grid and the color map have exactly dimensions.y rows of dimensions.x
HasShape(grid, d) ==
  /\ DOMAIN grid = Rows(d)
  /\ \A y \in DOMAIN grid : DOMAIN grid[y] = Cols(d)

WellFormed == HasShape(universe0, dimensions) /\ HasShape(colored_map0, dimensions)

\* a transition has been made in the sweep: last holds it
Transitioned == \E y \in DOMAIN writes : \E x \in DOMAIN writes[y] : writes[y][x] > 0

\* ---- C1 (as claimed): a step on an all-zero grid yields an all-zero grid,
\* for any parameters.
C1_NoSpontaneousActivation ==
  (gens >= 1 /\ AllZero(frozen)) => AllZero(universe)

\* ---- C1 (amended): a step on an all-zero grid yields a grid in which every
\* cell has a = f and b = 0 (and color 0); it is all-zero again exactly when
\* the feed rate f is 0.
C1_ZeroGridStepsToFeed ==
  (gens >= 1 /\ AllZero(frozen)) =>
    /\ \A y \in Rows(dimensions) : \A x \in Cols(dimensions) :
         /\ universe[y][x] = CellState(parameters.f, 0)
         /\ colored_map[y][x] = 0
    /\ AllZero(universe) <=> parameters.f = 0

C1_Witness ==
  /\ gens >= 1
  /\ AllZero(frozen)
  /\ parameters.f > 0
  /\ dimensions.x >= 2 /\ dimensions.y >= 2
  /\ ~AllZero(universe)

C1_WitnessNoFeed ==
  /\ gens >= 1
  /\ AllZero(frozen)
  /\ parameters.f = 0
  /\ AllZero(universe)

\* ---- C2: total_simulation applies the step exactly n times: n = 0 leaves
\* the grid and the color map unchanged, and n generations followed by m
\* generations on the result give the grid and the color map of n + m
\* generations.
RECURSIVE Run(_, _, _)
Run(k, grid, map) ==
  IF k = 0 THEN [universe |-> grid, colored_map |-> map]
  ELSE Bind(Run(k - 1, grid, map),
            LAMBDA s : evolution_universe(parameters, dimensions, s.universe,
                                          s.colored_map))

C2_StepsCompose ==
  /\ (pc = "between" /\ n1 = 0) =>
       (universe = universe0 /\ colored_map = colored_map0)
  /\ pc = "between" =>
       /\ gens = n1
       /\ [universe |-> universe, colored_map |-> colored_map]
            = Run(n1, universe0, colored_map0)
  /\ pc = "done" =>
       /\ gens = n1 + n2
       /\ [universe |-> universe, colored_map |-> colored_map]
            = Run(n1 + n2, universe0, colored_map0)

C2_Witness ==
  /\ pc = "done"
  /\ n1 >= 1 /\ n2 >= 1
  /\ universe # universe0
  /\ universe # frozen

\* ---- C3: the diffusion of a cell takes a contribution from exactly the Moore
\* neighbours that lie inside the dimensions, each once: no wraparound, no
\* reflection; the corner (0,0) of a grid with rows, cols >= 2 uses E, SE and
\* S only, and a cell on exactly one border uses 5 neighbours.
Abs(v) == IF v < 0 THEN 0 - v ELSE v

MooreInside(p, d) ==
  { q \in [y : Rows(d), x : Cols(d)] :
      /\ q # [y |-> p.y, x |-> p.x]
      /\ Abs(q.y - p.y) <= 1
      /\ Abs(q.x - p.x) <= 1 }

TakenPositions(taken) == { [y |-> taken[k].y, x |-> taken[k].x] : k \in 1..Len(taken) }

Borders(p, d) ==
  Cardinality({ side \in {"top", "bottom", "left", "right"} :
                  \/ side = "top" /\ p.y = 0
                  \/ side = "bottom" /\ p.y = d.y - 1
                  \/ side = "left" /\ p.x = 0
                  \/ side = "right" /\ p.x = d.x - 1 })

C3_NeighboursAreMooreInside ==
  Transitioned =>
    /\ TakenPositions(last.taken) = MooreInside(last.position, dimensions)
    /\ Cardinality(TakenPositions(last.taken)) = Len(last.taken)
    /\ (last.position = Position(0, 0) /\ dimensions.x >= 2 /\ dimensions.y >= 2) =>
         /\ Len(last.taken) = 3
         /\ TakenPositions(last.taken)
              = { [y |-> 0, x |-> 1], [y |-> 1, x |-> 1], [y |-> 1, x |-> 0] }
    /\ (Borders(last.position, dimensions) = 1) => Len(last.taken) = 5
    /\ (Borders(last.position, dimensions) = 0) => Len(last.taken) = 8

C3_WitnessCorner ==
  /\ Transitioned
  /\ last.position = Position(0, 0)
  /\ dimensions.x >= 3 /\ dimensions.y >= 3
  /\ Len(last.taken) = 3

C3_WitnessEdge ==
  /\ Transitioned
  /\ Borders(last.position, dimensions) = 1
  /\ Len(last.taken) = 5

\* ---- C4: after every completed step the color map is that of the new grid:
\* at every position within the dimensions colored_map holds color_cell of the
\* cell the step wrote there.
C4_ColorMapInLockstep ==
  gens >= 1 =>
    \A y \in Rows(dimensions) : \A x \in Cols(dimensions) :
      colored_map[y][x] = color_cell(universe[y][x])

C4_Witness ==
  /\ gens >= 2
  /\ colored_map # map_before
  /\ map_before # colored_map0
  /\ \E y \in Rows(dimensions) : \E x \in Cols(dimensions) :
       colored_map[y][x] # 0 /\ colored_map[y][x] # map_before[y][x]

\* ---- C5: the initializer that seeds exactly 3 cells leaves, for any grid of
\* at least 3 cells and any outcome of the shuffle, exactly 3 cells at (1,1),
\* at 3 distinct positions, and every other cell at (0,0).
ActiveCells(grid) ==
  { q \in [y : DOMAIN grid, x : DOMAIN grid[0]] : grid[q.y][q.x] = CellState(One, One) }

C5_ExactlyThreeSeeds ==
  (seeding = "fixed3" /\ pc = "ready") =>
    /\ Cardinality(ActiveCells(universe)) = 3
    /\ \A y \in DOMAIN universe : \A x \in DOMAIN universe[y] :
         universe[y][x] \in {CellState(One, One), CellState(0, 0)}

C5_Witness ==
  /\ seeding = "fixed3"
  /\ pc = "ready"
  /\ parameters.n_x * parameters.n_y > 3
  /\ Cardinality(ActiveCells(universe)) = 3

\* ---- C6 (as claimed): color_cell and CellState::color return 0 when
\* a + b <= 0 and b / (a + b) otherwise; a cell with a = b = 0 has color 0, and
\* for every cell with a >= 0 and b >= 0 the color lies in [0,1].
C6_ColorInUnitInterval ==
  applied =>
    /\ out_color = out_method
    /\ out_color = IF FLe(FAdd(in_cell.a, in_cell.b), 0) THEN 0
                   ELSE FDiv(in_cell.b, FAdd(in_cell.a, in_cell.b))
    /\ (in_cell = CellState(0, 0)) => out_color = 0
    /\ (FLe(0, in_cell.a) /\ FLe(0, in_cell.b)) =>
         (FLe(0, out_color) /\ FLe(out_color, One))

\* ---- C6 (amended): as claimed, with the color in [0,1] for every cell with
\* a >= 0 and a finite b >= 0; for b = +infinity (and a >= 0) the color is NaN.
C6_ColorInUnitIntervalFinite ==
  applied =>
    /\ out_color = out_method
    /\ out_color = IF FLe(FAdd(in_cell.a, in_cell.b), 0) THEN 0
                   ELSE FDiv(in_cell.b, FAdd(in_cell.a, in_cell.b))
    /\ (in_cell = CellState(0, 0)) => out_color = 0
    /\ (FLe(0, in_cell.a) /\ FLe(0, in_cell.b) /\ IsFinite(in_cell.b)) =>
         (FLe(0, out_color) /\ FLe(out_color, One))
    /\ (FLe(0, in_cell.a) /\ in_cell.b = PosInf) => IsNaN(out_color)

C6_Witness ==
  /\ applied
  /\ in_cell.a > 0 /\ IsFinite(in_cell.a)
  /\ in_cell.b > 0 /\ IsFinite(in_cell.b)
  /\ in_cell.a # in_cell.b
  /\ out_color > 0 /\ out_color < One

\* ---- C7: the diffused value is the fold over the existing neighbours in the
\* order NW, N, NE, E, SE, S, SW, W with weights 0.05 and 0.2 alternating, each
\* step subtracting w*d*(running value) and then adding w*d*(the neighbour's
\* value in the input grid), for a with d_a and for b with d_b.
Directions ==
  << [dy |-> 0 - 1, dx |-> 0 - 1, w |-> Lit(5, 100)],
     [dy |-> 0 - 1, dx |-> 0,     w |-> Lit(2, 10)],
     [dy |-> 0 - 1, dx |-> 1,     w |-> Lit(5, 100)],
     [dy |-> 0,     dx |-> 1,     w |-> Lit(2, 10)],
     [dy |-> 1,     dx |-> 1,     w |-> Lit(5, 100)],
     [dy |-> 1,     dx |-> 0,     w |-> Lit(2, 10)],
     [dy |-> 1,     dx |-> 0 - 1, w |-> Lit(5, 100)],
     [dy |-> 0,     dx |-> 0 - 1, w |-> Lit(2, 10)] >>

\* one neighbour step; out is the value the outflow is taken from
NeighbourStep(w, run, out, nb) ==
  [a |-> FAdd(FSub(run.a, FMul(FMul(w, parameters.d_a), out.a)),
              FMul(FMul(w, parameters.d_a), nb.a)),
   b |-> FAdd(FSub(run.b, FMul(FMul(w, parameters.d_b), out.b)),
              FMul(FMul(w, parameters.d_b), nb.b))]

\* the fold over the first k directions; sequential: the outflow is taken from
\* the running value, otherwise from the start-of-step value
RECURSIVE FoldDirections(_, _, _, _, _)
FoldDirections(k, start, p, grid, sequential) ==
  IF k = 0 THEN start
  ELSE Bind(FoldDirections(k - 1, start, p, grid, sequential),
            LAMBDA run :
              IF /\ p.y + Directions[k].dy \in Rows(dimensions)
                 /\ p.x + Directions[k].dx \in Cols(dimensions)
                THEN NeighbourStep(Directions[k].w, run,
                                   IF sequential THEN run ELSE start,
                                   grid[p.y + Directions[k].dy][p.x + Directions[k].dx])
                ELSE run)

C7_SequentialFold ==
  Transitioned =>
    last.diffused = FoldDirections(8, last.cell, last.position, frozen, TRUE)

C7_Witness ==
  /\ Transitioned
  /\ Len(last.taken) = 8
  /\ last.cell # CellState(0, 0)
  /\ last.diffused # FoldDirections(8, last.cell, last.position, frozen, FALSE)

\* ---- C8: the reaction terms are computed from the cell's value in the input
\* grid (a0, b0): with (ad, bd) the diffused value and R = r*a0*b0*b0 the cell
\* written is a = ad + f*(1 - a0) - R, b = bd - k*b0 + R, not clamped to [0,1].
C8_ReactionFromInputCell ==
  Transitioned =>
    /\ last.cell = frozen[last.position.y][last.position.x]
    /\ last.evolved.a =
         FSub(FAdd(last.diffused.a, FMul(parameters.f, FSub(One, last.cell.a))),
              FMul(FMul(parameters.r, last.cell.a), FMul(last.cell.b, last.cell.b)))
    /\ last.evolved.b =
         FAdd(FSub(last.diffused.b, FMul(parameters.k, last.cell.b)),
              FMul(FMul(parameters.r, last.cell.a), FMul(last.cell.b, last.cell.b)))
    /\ evolved_universe[last.position.y][last.position.x] = last.evolved

C8_Witness ==
  /\ Transitioned
  /\ last.diffused # last.cell
  /\ last.cell # CellState(0, 0)
  /\ last.evolved.b > One

\* ---- C9: in one step every position within the dimensions is computed and
\* written exactly once into a fresh output grid, every read is of the
\* unmodified input grid, so the output grid and the color map are the
\* position-wise function of the input grid whatever the order of the sweep.
Before(y, x) == y < r \/ (y = r /\ x < c)

C9_SweepReadsFrozenInput ==
  /\ pc = "sweep" =>
       /\ universe = frozen
       /\ HasShape(evolved_universe, dimensions)
       /\ \A y \in Rows(dimensions) : \A x \in Cols(dimensions) :
            /\ writes[y][x] = IF Before(y, x) THEN 1 ELSE 0
            /\ ~Before(y, x) => evolved_universe[y][x] = CellState(0, 0)
  /\ (pc \in {"sweep", "stepped"} /\ Transitioned) =>
       /\ last.evolved =
            transition(parameters, frozen[last.position.y][last.position.x],
                       last.position, dimensions, frozen).cell
       /\ evolved_universe[last.position.y][last.position.x] = last.evolved
  /\ pc = "stepped" =>
       /\ \A y \in Rows(dimensions) : \A x \in Cols(dimensions) :
            writes[y][x] = 1 /\ map_writes[y][x] = 1
       /\ [universe |-> universe, colored_map |-> colored_map]
            = evolution_universe(parameters, dimensions, frozen, map_before)

C9_Witness ==
  /\ pc = "stepped"
  /\ dimensions.x >= 3 /\ dimensions.y >= 3
  /\ ~AllZero(frozen)
  /\ universe # frozen

\* ---- C10: when the grid and the color map have exactly the dimensions, every
\* index a step uses (the swept cell, its neighbour reads, the two writes) lies
\* within the dimensions, for every grid size, and no panic is reachable in
\* any number of generations.
WithinDimensions(y, x) == 0 <= y /\ y < dimensions.y /\ 0 <= x /\ x < dimensions.x

C10_NoBoundsError ==
  WellFormed =>
    /\ pc # "panic"
    /\ HasShape(universe, dimensions)
    /\ HasShape(colored_map, dimensions)
    /\ \A y \in Rows(dimensions) : \A x \in Cols(dimensions) :
         \E taken \in {Taken(Position(x, y), dimensions)} :
           \A k \in 1..Len(taken) : WithinDimensions(taken[k].y, taken[k].x)

C10_Witness ==
  /\ WellFormed
  /\ pc = "done"
  /\ gens >= 2
  /\ dimensions.y = 1 /\ dimensions.x >= 2

C10_WitnessSingleCell ==
  /\ WellFormed
  /\ gens >= 1
  /\ dimensions.y = 1 /\ dimensions.x = 1

\* every concentration and color of the run is a finite f32: the runs modelled
\* stay clear of overflow
FiniteGrid(grid) ==
  \A y \in DOMAIN grid : \A x \in DOMAIN grid[y] :
    IsFinite(grid[y][x].a) /\ IsFinite(grid[y][x].b)

AllFinite ==
  /\ FiniteGrid(universe)
  /\ FiniteGrid(evolved_universe)
  /\ \A y \in DOMAIN colored_map : \A x \in DOMAIN colored_map[y] :
       IsFinite(colored_map[y][x])

====
